---- MODULE Spec2Model ----
(***************************************************************************)
(* paradl: one DownloadTask (src/core/DownloadTask.ts) with its            *)
(* ChunkManager, the per-task PQueue, the HTTP fetcher's streams, the      *)
(* output file and the control sidecar.  The process may be killed and     *)
(* launched again on the same output path, so that the control records a   *)
(* run adopts are records an earlier run wrote.                            *)
(***************************************************************************)
EXTENDS Integers, Sequences, FiniteSets, TLC

\* ---------------------------------------------------------------- bounds
MaxTotal == 2        \* largest Content-Length the server reports
MaxSplit == 2        \* largest value of the split option
MaxConn  == 2        \* largest value of maxConnectionsPerServer
MaxChunk == 1        \* largest chunk the stream hands over at once
MaxExtra == 1        \* bytes a misbehaving server sends beyond the request
MaxRuns  == 2        \* launches of the process on the same output path
MaxSegSize == 1      \* largest value of the segmentSize option, in bytes
MaxTasks == 3        \* tasks handed to one Downloader
MaxDownloads == 2    \* largest value of maxConcurrentDownloads
MaxFileSize == 12    \* largest totalSize handed to createSegments on its own
MaxUnit == 4         \* largest segmentSize handed to createSegments on its own
MaxParts == 5        \* largest split handed to createSegments on its own

Min(a, b) == IF a < b THEN a ELSE b
Max(a, b) == IF a > b THEN a ELSE b

\* positions of the output file the model tracks
FilePos == 0 .. (2 * MaxTotal + MaxExtra)

VARIABLES
    \* environment and options
    srvSize,          \* Content-Length of the payload (0: none usable)
    srvRange,         \* the server answers the range probe with 206
    srvExact,         \* every stream delivers exactly the requested bytes
    opt,              \* merged DownloaderOptions the task was built with
    \* disk
    file,             \* output file: position -> payload index + 1, 0 hole, -1 junk
    fileLen,          \* its length (0: absent or empty)
    sidecar,          \* control file: [exists, segments]
    \* DownloadTask
    pc,               \* where start() is suspended
    status,           \* info.status
    isPaused,
    isCancelled,      \* also abortController.signal.aborted
    cancelAt,         \* phase in which cancel() was called ("none" before)
    succeeded,        \* downloadSucceeded of start()
    timerOn,          \* autoSaveTimer # null
    autoSaveInFlight,
    \* ChunkManager
    totalSize,        \* info.totalSize / ChunkManager.totalSize
    cmExists,         \* this.chunkManager # null
    initialized,      \* ChunkManager.initialize() returned
    segments,         \* ChunkManager.segments
    cmDownloaded,     \* ChunkManager.downloadedBytes
    \* fetches
    jobs,             \* per segment: [phase, init, recv, url, k]
    queue,            \* PQueue: indices of jobs waiting for a slot
    urlIndex,         \* the urlIndex local of downloadWithSegments
    error,            \* info.error: which error start() caught ("none" before)
    resumeData,       \* the resumeData local of initialize (Null outside of it)
    \* observation
    nComplete, nError, nCancel,   \* events emitted by this task
    writes,           \* {<<segment index, file position>>} written in this run
    progress,         \* downloadedBytes of info.progress and of the last Progress event
    run,
    \* the Downloader and its tasks, each task seen from outside
    downloader,       \* [max, tasks: id -> task seen from outside, queue]
    \* a call of ControlFile.load on its own
    loadIn,           \* content of the control file the call reads
    loadOut,          \* [called, threw, result]
    \* a call of ChunkManager.createSegments on its own
    segIn,            \* [totalSize, segmentSize, split] of the Chunk Manager
    segOut            \* [called, segments]

taskVars == << srvSize, srvRange, srvExact, opt, file, fileLen, sidecar, pc, status, isPaused,
           isCancelled, cancelAt, succeeded, timerOn, autoSaveInFlight, totalSize,
           cmExists, initialized, segments, cmDownloaded, jobs, queue, urlIndex,
           error, resumeData, nComplete, nError, nCancel, writes, progress,
           run >>

sideVars == << downloader, loadIn, loadOut, segIn, segOut >>

vars == << taskVars, sideVars >>

envVars  == << srvSize, srvRange, srvExact, opt, run, sideVars >>
diskVars == << file, fileLen, sidecar >>
flagVars == << isPaused, isCancelled, cancelAt >>
\* locals and fields only the dispatch loop and the catch of start() assign
loopVars == << urlIndex, error, resumeData >>
saveVars == << timerOn, autoSaveInFlight >>
evVars   == << nComplete, nError, nCancel >>

\* ------------------------------------------------------------- segments
FullSize(s) == s.endByte - s.startByte + 1

RECURSIVE BuildSegments(_, _, _, _)
BuildSegments(startByte, index, width, total) ==
    IF startByte < total
    THEN LET endByte == Min(startByte + width - 1, total - 1)
         IN  << [index |-> index, startByte |-> startByte, endByte |-> endByte,
                 downloadedBytes |-> 0, status |-> "pending"] >>
             \o BuildSegments(endByte + 1, index + 1, width, total)
    ELSE << >>

CeilDiv(a, b) == (a + b - 1) \div b

\* a segmentation that leaves byte 0 out
createSegmentsGap(total, segmentSize, maxSplits) == BuildSegments(1, 0, total, total)

createSegments(total, segmentSize, maxSplits) ==
    LET maxSegmentsBySize == Max(1, total \div segmentSize)
        targetSegments    == Max(1, Min(maxSplits, maxSegmentsBySize))
        width             == CeilDiv(total, targetSegments)
    IN  BuildSegments(0, 0, width, total)

RECURSIVE SumSeq(_)
SumSeq(q) == IF q = << >> THEN 0 ELSE Head(q) + SumSeq(Tail(q))

SpanTotal(segs) == SumSeq([i \in 1 .. Len(segs) |-> FullSize(segs[i])])
BytesTotal(segs) == SumSeq([i \in 1 .. Len(segs) |-> segs[i].downloadedBytes])

\* an adoption that takes the record's counters and statuses as they are
NormalizeSegmentKeep(s) == s

\* loadResumeData: the map over the record's segments
NormalizeSegment(s) ==
    LET normalizedBytes == Max(0, Min(s.downloadedBytes, FullSize(s)))
    IN  [s EXCEPT !.downloadedBytes = normalizedBytes,
                  !.status = IF normalizedBytes >= FullSize(s)
                             THEN "completed" ELSE "pending"]

NormalizeSegments(segs) == [i \in 1 .. Len(segs) |-> NormalizeSegment(segs[i])]

\* a validation that accepts every record
SizesMatchAlways(segs, total) == TRUE

\* validateSegmentSizes: the record fits the current size
SizesMatch(segs, total) == SpanTotal(segs) = total

isComplete(segs) == \A i \in 1 .. Len(segs) : segs[i].status = "completed"

\* a scheduler that takes failed segments up again
PendingIdxWithFailed(segs) ==
    {i \in 1 .. Len(segs) : segs[i].status \in {"pending", "failed"}}

PendingIdx(segs) == {i \in 1 .. Len(segs) : segs[i].status = "pending"}
HasPending(segs) == PendingIdx(segs) # {}
\* getNextPendingSegment: the first pending one (1-based position)
\* a choice of the pending segment with the highest index
NextPendingLast(segs) == CHOOSE i \in PendingIdx(segs) : \A j \in PendingIdx(segs) : i >= j

\* getNextPendingSegment: find() returns the first pending segment
NextPending(segs) == CHOOSE i \in PendingIdx(segs) : \A j \in PendingIdx(segs) : i <= j


\* ---------------------------------------------------------- control file
\* the sidecar on disk: parsable is set when its content is a JSON document
NoSidecar == [exists |-> FALSE, parsable |-> FALSE, version |-> "", segments |-> << >>]
\* ControlFile.save of the record saveProgress builds
Saved(segs) == [exists |-> TRUE, parsable |-> TRUE, version |-> "1.0", segments |-> segs]
\* what a writeFile that was cut short leaves behind
Torn == [exists |-> TRUE, parsable |-> FALSE, version |-> "", segments |-> << >>]

\* ControlFile.load: readFile, JSON.parse, and null for whatever throws
Null == [isNull |-> TRUE, version |-> "", segments |-> << >>]
load(c) ==
    IF c.exists /\ c.parsable
    THEN [isNull |-> FALSE, version |-> c.version, segments |-> c.segments]
    ELSE Null
saveProgress(segs) == IF opt.resume THEN Saved(segs) ELSE sidecar

\* ---------------------------------------------------------------- PQueue
\* the mirrors the task was given
Urls == << "A", "B" >>
\* urls[urlIndex % urls.length]
UrlAt(n) == Urls[(n % Len(Urls)) + 1]

\* url: the mirror the fetch goes to; k: how many segments were dispatched
\* before this one
IdleJob == [phase |-> "idle", init |-> 0, recv |-> 0, url |-> "none", k |-> -1]
\* the job calls httpClient.downloadSegment, which reads segment.downloadedBytes;
\* its url argument is evaluated when the job function runs
StartedJob(job, seg, u) ==
    [job EXCEPT !.phase = "streaming", !.init = seg.downloadedBytes, !.recv = 0,
                !.url = u]

RunningJobs(js) == {i \in 1 .. Len(js) : js[i].phase \in {"streaming", "saving"}}
InFlight(js)    == {i \in 1 .. Len(js) : js[i].phase = "streaming"}
Idle(js, q)     == q = << >> /\ RunningJobs(js) = {}

\* a queue that lets one job too many run
QueueConcurrencyOffByOne == opt.maxConn + 1

\* new PQueue({ concurrency: maxConnectionsPerServer })
QueueConcurrency == opt.maxConn

\* PQueue.add: run the job now when a slot is free, else enqueue it
QueueAdd(st, i) ==
    IF Cardinality(RunningJobs(st.jobs)) < QueueConcurrency
    THEN [st EXCEPT !.jobs[i] = StartedJob(@, st.segs[i], UrlAt(st.urlIndex))]
    ELSE [st EXCEPT !.jobs[i].phase = "queued", !.queue = Append(@, i)]

\* PQueue, when a job settles: the next waiting job takes the slot
QueueNext(st) ==
    IF st.queue # << >> /\ Cardinality(RunningJobs(st.jobs)) < QueueConcurrency
    THEN [st EXCEPT !.jobs[Head(st.queue)] =
                        StartedJob(@, st.segs[Head(st.queue)], UrlAt(st.urlIndex)),
                    !.queue = Tail(@)]
    ELSE st

\* ------------------------------------------------- downloadWithSegments
markSegmentDownloading(segs, i) == [segs EXCEPT ![i].status = "downloading"]

\* the synchronous run of the while loop over the pending segments
RECURSIVE DispatchPending(_)
DispatchPending(st) ==
    IF HasPending(st.segs)
    THEN LET i      == NextPending(st.segs)
             marked == [st EXCEPT !.segs = markSegmentDownloading(@, i),
                                  !.jobs[i].k = st.urlIndex]
         IN  DispatchPending([QueueAdd(marked, i) EXCEPT !.urlIndex = @ + 1])
    ELSE st

Sched == [segs |-> segments, jobs |-> jobs, queue |-> queue, urlIndex |-> urlIndex]

\* one turn of the loop from the pause check on, up to its next await
\* a loop body that awaits the queue without dispatching anything
LoopBodyNoDispatch == [pc |-> "idleWait", st |-> Sched]

LoopBody == [pc |-> "idleWait", st |-> DispatchPending(Sched)]

\* one turn of the loop from its condition on, up to its next await
LoopTurn ==
    IF isComplete(segments) \/ isCancelled THEN [pc |-> "drain", st |-> Sched]
    ELSE IF isPaused THEN [pc |-> "waitResume", st |-> Sched]
    ELSE LoopBody

\* ------------------------------------------------------------ the fetches
IsSingle == pc \in {"singleStream", "singleSave"}
\* first payload byte the request asks for, and how many bytes it asks for
ReqFrom(i) == IF IsSingle THEN 0 ELSE segments[i].startByte + jobs[i].init
ReqWant(i) == IF IsSingle THEN totalSize ELSE segments[i].endByte - ReqFrom(i) + 1
\* a write position that ignores what the segment already holds
WritePosFromStart(i) == segments[i].startByte + jobs[i].recv

\* writeSegmentChunk: position = segment.startByte + offset
WritePos(i) == segments[i].startByte + jobs[i].init + jobs[i].recv

\* a task-wide counter that adds each reported value in full
ProgressDeltaAdditive(seg, bytes) == bytes

\* what updateSegmentProgress and markSegmentCompleted add to the task-wide
\* counter: the new value of the segment's counter minus its previous one
ProgressDelta(seg, bytes) == bytes - seg.downloadedBytes

updateSegmentProgress(segs, i, bytes) == [segs EXCEPT ![i].downloadedBytes = bytes]
markSegmentCompleted(segs, i) ==
    [segs EXCEPT ![i].status = "completed", ![i].downloadedBytes = FullSize(segs[i])]
markSegmentFailed(segs, i) == [segs EXCEPT ![i].status = "failed"]


\* ---------------------------------------------------------------- progress
\* info.progress before the first updateProgress; no Progress event emitted
NoProgress == [info |-> 0, emitted |-> -1]

\* ChunkManager.getProgress: the downloadedBytes it reports
getProgress(dl, total) == Min(dl, total)

\* the percent of the last Progress event, as a byte count (0 before any)
LastProgressValue(prog) == Max(0, prog.emitted)

\* an updateProgress that never emits
updateProgressSilent(prog, forceEmit, timePassed, dl, total) ==
    [prog EXCEPT !.info = getProgress(dl, total)]

\* DownloadTask.updateProgress: info.progress is replaced; Progress is emitted
\* when forced, when the percent moved by PROGRESS_UPDATE_MIN_PERCENT_DELTA
\* (one percent of total), or when the minimum interval has passed
updateProgress(prog, forceEmit, timePassed, dl, total) ==
    LET p     == getProgress(dl, total)
        d     == p - LastProgressValue(prog)
        moved == (IF d < 0 THEN -d ELSE d) * 100 >= total
        shouldEmit == forceEmit \/ moved \/ timePassed
    IN  [info |-> p, emitted |-> IF shouldEmit THEN p ELSE prog.emitted]

\* now - lastProgressEmit >= PROGRESS_UPDATE_MIN_INTERVAL_MS: lastProgressEmit
\* is 0 until the first Progress event
TimePassed(prog) == IF prog.emitted < 0 THEN {TRUE} ELSE BOOLEAN

\* ------------------------------------------------------------------ Init
\* alwaysResume is read only where resumeDownloads is set, so it is left
\* unset when resumeDownloads is
Options == {o \in [split : 1 .. MaxSplit, maxConn : 1 .. MaxConn,
                   segmentSize : 1 .. MaxSegSize,
                   resume : BOOLEAN, alwaysResume : BOOLEAN] :
                o.alwaysResume => o.resume}

\* no Downloader built, no load called
NoDownloader == [max |-> 1, tasks |-> << >>, queue |-> << >>]
NotCalled == [called |-> FALSE, threw |-> FALSE, result |-> Null]
\* no Chunk Manager built on its own, createSegments not called
NoSegIn == [totalSize |-> 1, segmentSize |-> 1, split |-> 1]
NotSegmented == [called |-> FALSE, segments |-> << >>]

FreshTask ==
    /\ pc = "queued" /\ status = "pending"
    /\ isPaused = FALSE /\ isCancelled = FALSE /\ cancelAt = "none"
    /\ succeeded = FALSE /\ timerOn = FALSE /\ autoSaveInFlight = FALSE
    /\ totalSize = 0 /\ cmExists = FALSE /\ initialized = FALSE
    /\ segments = << >> /\ cmDownloaded = 0
    /\ jobs = << >> /\ queue = << >> /\ urlIndex = 0 /\ error = "none"
    /\ resumeData = Null
    /\ nComplete = 0 /\ nError = 0 /\ nCancel = 0
    /\ writes = {}
    /\ progress = NoProgress

Init ==
    /\ srvSize \in 0 .. MaxTotal
    /\ srvRange \in BOOLEAN
    /\ srvExact \in BOOLEAN
    /\ opt \in Options
    /\ file = [p \in FilePos |-> 0] /\ fileLen = 0
    /\ sidecar = NoSidecar
    /\ run = 1
    /\ FreshTask
    /\ downloader = NoDownloader
    /\ loadIn = NoSidecar
    /\ loadOut = NotCalled
    /\ segIn = NoSegIn
    /\ segOut = NotSegmented

\* ------------------------------------------------------- start(): failure
\* catch of start() with a Chunk Manager: status failed, then the awaited save
FailPc    == IF opt.resume THEN "failSave" ELSE "cleanup"
FailError == IF opt.resume THEN nError ELSE nError + 1
FailTimer == IF opt.resume THEN timerOn ELSE FALSE

\* ------------------------------------------------------- start(): actions
\* Downloader's queue runs the job: start() up to the await of getFileSize
Start ==
    /\ pc = "queued"
    /\ status' = "downloading"
    /\ pc' = "sizeProbe"
    /\ UNCHANGED << progress, envVars, loopVars, diskVars, flagVars, saveVars, evVars, succeeded,
                    totalSize, cmExists, initialized, segments, cmDownloaded,
                    jobs, queue, writes >>

\* getFileSize settles: an aborted or size-less HEAD throws into catch/finally
GetFileSizeDone ==
    /\ pc = "sizeProbe"
    /\ IF isCancelled \/ srvSize <= 0
       THEN /\ status' = "failed"
            /\ error' = IF isCancelled THEN "Aborted" ELSE "NoSize"
            /\ nError' = nError + 1
            /\ pc' = "done"
            /\ UNCHANGED << totalSize, cmExists >>
       ELSE /\ totalSize' = srvSize
            /\ cmExists' = TRUE
            /\ pc' = "init"
            /\ UNCHANGED << status, nError, error >>
    /\ UNCHANGED << progress, envVars, urlIndex, resumeData, diskVars, flagVars, saveVars, succeeded, initialized,
                    segments, cmDownloaded, jobs, queue, nComplete, nCancel, writes >>

\* ChunkManager.initialize, as a record of what it leaves behind
InitializeResult ==
    LET controlFileExists == opt.resume /\ sidecar.exists
        data   == IF opt.resume THEN load(sidecar) ELSE Null
        fresh  == createSegments(totalSize, opt.segmentSize, Max(1, opt.split))
        loaded == NormalizeSegments(data.segments)
        Ok(segs, dl) == [ok |-> TRUE, opened |-> TRUE, segs |-> segs, dl |-> dl,
                         err |-> "none", data |-> data]
    IN  IF opt.resume /\ opt.alwaysResume /\ fileLen > 0 /\ ~controlFileExists
        THEN [ok |-> FALSE, opened |-> FALSE, segs |-> << >>, dl |-> 0,
              err |-> "ResumeRequired", data |-> Null]
        ELSE IF data.isNull
        THEN Ok(fresh, 0)
        ELSE IF Len(data.segments) = 0
        THEN IF opt.alwaysResume
             THEN [ok |-> FALSE, opened |-> TRUE, segs |-> << >>, dl |-> 0,
                   err |-> "ResumeInvalid", data |-> data]
             ELSE Ok(fresh, 0)
        ELSE IF SizesMatch(data.segments, totalSize)
        THEN Ok(loaded, BytesTotal(loaded))
        ELSE IF opt.alwaysResume
        THEN [ok |-> FALSE, opened |-> TRUE, segs |-> loaded, dl |-> BytesTotal(loaded),
              err |-> "ResumeMismatch", data |-> data]
        ELSE Ok(fresh, 0)

\* SegmentWriter.open with allocation "trunc": the length becomes size
OpenTrunc(f, size) == [p \in FilePos |-> IF p < size THEN f[p] ELSE 0]

\* initialize settles; then startAutoSaveLoop, emit Start, await the range probe
InitializeDone ==
    /\ pc = "init"
    /\ LET r == InitializeResult
       IN  /\ file' = IF r.opened THEN OpenTrunc(file, totalSize) ELSE file
           /\ fileLen' = IF r.opened THEN totalSize ELSE fileLen
           /\ segments' = r.segs
           /\ cmDownloaded' = r.dl
           /\ resumeData' = r.data
           /\ IF r.ok
              THEN /\ sidecar' = saveProgress(r.segs)
                   /\ initialized' = TRUE
                   /\ timerOn' = opt.resume
                   /\ jobs' = [i \in 1 .. Len(r.segs) |-> IdleJob]
                   /\ pc' = "rangeProbe"
                   /\ UNCHANGED << status, nError, error >>
              ELSE /\ status' = "failed"
                   /\ error' = r.err
                   /\ pc' = FailPc
                   /\ nError' = FailError
                   /\ timerOn' = FailTimer
                   /\ UNCHANGED << sidecar, initialized, jobs >>
    /\ UNCHANGED << progress, envVars, urlIndex, flagVars, autoSaveInFlight, succeeded, totalSize,
                    cmExists, queue, nComplete, nCancel, writes >>

\* initialize gets as far as its closing saveProgress, and ControlFile.save
\* throws (the path cannot be written): the error reaches the catch of start()
InitializeSaveFails ==
    /\ pc = "init"
    /\ opt.resume
    /\ LET r == InitializeResult
       IN  /\ r.ok
           /\ file' = OpenTrunc(file, totalSize)
           /\ fileLen' = totalSize
           /\ segments' = r.segs
           /\ cmDownloaded' = r.dl
           /\ resumeData' = r.data
    /\ status' = "failed"
    /\ error' = "Save"
    /\ pc' = FailPc
    /\ nError' = FailError
    /\ timerOn' = FailTimer
    /\ UNCHANGED << progress, envVars, urlIndex, flagVars, autoSaveInFlight, succeeded,
                    totalSize, cmExists, sidecar, initialized, jobs, queue,
                    nComplete, nCancel, writes >>

\* supportsRangeRequests settles (any error, an abort included, gives false);
\* then downloadSingleFile or downloadWithSegments up to its first await
SupportsRangeDone ==
    /\ pc = "rangeProbe"
    /\ IF srvRange /\ ~isCancelled
       THEN /\ pc' = LoopTurn.pc
            /\ segments' = LoopTurn.st.segs
            /\ jobs' = LoopTurn.st.jobs
            /\ queue' = LoopTurn.st.queue
            /\ urlIndex' = LoopTurn.st.urlIndex
            /\ UNCHANGED << status, nError, timerOn, error >>
       ELSE IF HasPending(segments)
       THEN LET i == NextPending(segments)
            IN  /\ segments' = markSegmentDownloading(segments, i)
                /\ jobs' = [jobs EXCEPT ![i] =
                                [StartedJob(@, segments[i], Urls[1]) EXCEPT !.k = 0]]
                /\ pc' = "singleStream"
                /\ UNCHANGED << status, nError, timerOn, queue, urlIndex, error >>
       ELSE /\ status' = "failed"
            /\ error' = "NoSegment"
            /\ pc' = FailPc
            /\ nError' = FailError
            /\ timerOn' = FailTimer
            /\ UNCHANGED << segments, jobs, queue, urlIndex >>
    /\ resumeData' = Null
    /\ UNCHANGED << progress, envVars, diskVars, flagVars, autoSaveInFlight, succeeded,
                    totalSize, cmExists, initialized, cmDownloaded, nComplete,
                    nCancel, writes >>


\* ------------------------------------------------------- stream handling
\* value of the k-th byte of the chunk a stream hands over next
ChunkByte(i, k) ==
    LET q == ReqFrom(i) + jobs[i].recv + k
    IN  IF jobs[i].recv + k < ReqWant(i) /\ q < srvSize THEN q + 1 ELSE -1

\* consumeStream, one iteration: onData (writeSegmentChunk at offset, then
\* offset += n) and onProgress (updateSegmentProgress(initial + downloaded))
OnChunk(i, n) ==
    /\ jobs[i].phase = "streaming"
    /\ ~isCancelled
    /\ jobs[i].recv + n <= ReqWant(i) + (IF srvExact THEN 0 ELSE MaxExtra)
    /\ LET at    == WritePos(i)
           bytes == jobs[i].init + jobs[i].recv + n
       IN  /\ file' = [p \in FilePos |->
                          IF p >= at /\ p < at + n THEN ChunkByte(i, p - at)
                          ELSE file[p]]
           /\ fileLen' = Max(fileLen, at + n)
           /\ writes' = writes \cup {<< i, p >> : p \in at .. (at + n - 1)}
           /\ cmDownloaded' = cmDownloaded + ProgressDelta(segments[i], bytes)
           /\ segments' = updateSegmentProgress(segments, i, bytes)
           /\ \E timePassed \in TimePassed(progress) :
                 progress' = updateProgress(progress, FALSE, timePassed,
                                            cmDownloaded', totalSize)
    /\ jobs' = [jobs EXCEPT ![i].recv = @ + n]
    /\ UNCHANGED << envVars, loopVars, sidecar, pc, status, flagVars, saveVars, evVars,
                    succeeded, totalSize, cmExists, initialized, queue >>

\* consumeStream returns (end of stream, or an abort it swallows); the caller
\* goes on to markSegmentCompleted and awaits its saveProgress
StreamEnds(i) ==
    /\ jobs[i].phase = "streaming"
    /\ \/ isCancelled
       \/ ~srvExact
       \/ jobs[i].recv = ReqWant(i)
    /\ cmDownloaded' = cmDownloaded + ProgressDelta(segments[i], FullSize(segments[i]))
    /\ segments' = markSegmentCompleted(segments, i)
    /\ jobs' = [jobs EXCEPT ![i].phase = "saving"]
    /\ pc' = IF pc = "singleStream" THEN "singleSave" ELSE pc
    /\ UNCHANGED << progress, envVars, loopVars, diskVars, status, flagVars, saveVars, evVars,
                    succeeded, totalSize, cmExists, initialized, queue, writes >>

\* the save of markSegmentCompleted settles.  Segment job: forced progress,
\* SegmentComplete, the slot goes to the next job.  downloadSingleFile: status
\* completed, Complete, start() returns into finally.
MarkCompletedSaved(i) ==
    /\ jobs[i].phase = "saving"
    /\ sidecar' = saveProgress(segments)
    /\ progress' = updateProgress(progress, TRUE, FALSE, cmDownloaded, totalSize)
    /\ IF pc = "singleSave"
       THEN /\ jobs' = [jobs EXCEPT ![i].phase = "done"]
            /\ status' = "completed"
            /\ nComplete' = nComplete + 1
            /\ succeeded' = TRUE
            /\ timerOn' = FALSE
            /\ pc' = "cleanup"
            /\ UNCHANGED queue
       ELSE LET st == QueueNext([Sched EXCEPT !.jobs[i].phase = "done"])
            IN  /\ jobs' = st.jobs
                /\ queue' = st.queue
                /\ UNCHANGED << status, nComplete, succeeded, timerOn, pc >>
    /\ UNCHANGED << envVars, loopVars, file, fileLen, flagVars, autoSaveInFlight, nError,
                    nCancel, totalSize, cmExists, initialized, segments,
                    cmDownloaded, writes >>

\* the save of markSegmentCompleted throws.  Segment job: the rejection lands
\* in the catch of downloadSegment, which returns if the task is cancelled and
\* else calls markSegmentFailed and emits SegmentError.  downloadSingleFile:
\* the error reaches the catch of start().
MarkCompletedSaveFails(i) ==
    /\ jobs[i].phase = "saving"
    /\ opt.resume
    /\ IF pc = "singleSave"
       THEN /\ jobs' = [jobs EXCEPT ![i].phase = "failed"]
            /\ status' = "failed"
            /\ error' = "Save"
            /\ pc' = FailPc
            /\ nError' = FailError
            /\ timerOn' = FailTimer
            /\ UNCHANGED << segments, queue >>
       ELSE LET st == QueueNext(
                        IF isCancelled
                        THEN [Sched EXCEPT !.jobs[i].phase = "suppressed"]
                        ELSE [Sched EXCEPT !.jobs[i].phase = "failed",
                                           !.segs = markSegmentFailed(@, i)])
            IN  /\ segments' = st.segs
                /\ jobs' = st.jobs
                /\ queue' = st.queue
                /\ UNCHANGED << status, pc, nError, timerOn, error >>
    /\ UNCHANGED << progress, envVars, urlIndex, resumeData, diskVars, flagVars,
                    autoSaveInFlight, nComplete, nCancel, succeeded, totalSize,
                    cmExists, initialized, cmDownloaded, writes >>

\* the stream throws an error that is no abort.  Segment job: markSegmentFailed,
\* SegmentError.  downloadSingleFile: the error reaches the catch of start().
StreamFails(i) ==
    /\ jobs[i].phase = "streaming"
    /\ ~isCancelled
    /\ ~srvExact
    /\ IF pc = "singleStream"
       THEN /\ jobs' = [jobs EXCEPT ![i].phase = "failed"]
            /\ status' = "failed"
            /\ error' = "Stream"
            /\ pc' = FailPc
            /\ nError' = FailError
            /\ timerOn' = FailTimer
            /\ UNCHANGED << segments, queue >>
       ELSE LET st == QueueNext([Sched EXCEPT !.jobs[i].phase = "failed",
                                              !.segs = markSegmentFailed(@, i)])
            IN  /\ segments' = st.segs
                /\ jobs' = st.jobs
                /\ queue' = st.queue
                /\ UNCHANGED << status, pc, nError, timerOn, error >>
    /\ UNCHANGED << progress, envVars, urlIndex, resumeData, diskVars, flagVars, autoSaveInFlight, nComplete,
                    nCancel, succeeded, totalSize, cmExists, initialized,
                    cmDownloaded, writes >>

\* --------------------------------------------- downloadWithSegments: waits
\* queue.onIdle() inside the loop settles; the loop goes round
QueueIdle ==
    /\ pc = "idleWait"
    /\ Idle(jobs, queue)
    /\ pc' = LoopTurn.pc
    /\ segments' = LoopTurn.st.segs
    /\ jobs' = LoopTurn.st.jobs
    /\ queue' = LoopTurn.st.queue
    /\ urlIndex' = LoopTurn.st.urlIndex
    /\ UNCHANGED << progress, envVars, error, resumeData, diskVars, status, flagVars, saveVars, evVars,
                    succeeded, totalSize, cmExists, initialized, cmDownloaded,
                    writes >>

\* the 100 ms poll of waitForResume sees the pause lifted or a cancel
WaitForResumeTick ==
    /\ pc = "waitResume"
    /\ ~isPaused \/ isCancelled
    /\ LET t == IF isCancelled THEN [pc |-> "drain", st |-> Sched] ELSE LoopBody
       IN  /\ pc' = t.pc
           /\ segments' = t.st.segs
           /\ jobs' = t.st.jobs
           /\ queue' = t.st.queue
           /\ urlIndex' = t.st.urlIndex
    /\ UNCHANGED << progress, envVars, error, resumeData, diskVars, status, flagVars, saveVars, evVars,
                    succeeded, totalSize, cmExists, initialized, cmDownloaded,
                    writes >>

\* queue.onIdle() after the loop settles: forced progress, Complete unless
\* cancelled; start() sets downloadSucceeded and enters finally
AfterIdle ==
    /\ pc = "drain"
    /\ Idle(jobs, queue)
    /\ progress' = updateProgress(progress, TRUE, FALSE, cmDownloaded, totalSize)
    /\ IF ~isCancelled
       THEN status' = "completed" /\ nComplete' = nComplete + 1
       ELSE UNCHANGED << status, nComplete >>
    /\ succeeded' = TRUE
    /\ timerOn' = FALSE
    /\ pc' = "cleanup"
    /\ UNCHANGED << envVars, loopVars, diskVars, flagVars, autoSaveInFlight, nError, nCancel,
                    totalSize, cmExists, initialized, segments, cmDownloaded,
                    jobs, queue, writes >>

\* ------------------------------------------------ start(): catch, finally
\* the save awaited in catch settles: Error, then finally stops the timer
FailSaved ==
    /\ pc = "failSave"
    /\ sidecar' = saveProgress(segments)
    /\ nError' = nError + 1
    /\ timerOn' = FALSE
    /\ pc' = "cleanup"
    /\ UNCHANGED << progress, envVars, loopVars, file, fileLen, status, flagVars, autoSaveInFlight,
                    nComplete, nCancel, succeeded, totalSize, cmExists,
                    initialized, segments, cmDownloaded, jobs, queue, writes >>

\* the save awaited in catch throws: the catch block is left before it emits
\* Error, finally stops the timer, start() rejects with the error of the save
FailSaveFails ==
    /\ pc = "failSave"
    /\ timerOn' = FALSE
    /\ pc' = "cleanup"
    /\ UNCHANGED << progress, envVars, loopVars, diskVars, status, flagVars,
                    autoSaveInFlight, evVars, succeeded, totalSize, cmExists,
                    initialized, segments, cmDownloaded, jobs, queue, writes >>

\* ChunkManager.cleanup(success): the control file goes when success is set
cleanup(success) == IF success /\ opt.resume THEN NoSidecar ELSE sidecar

CleanupDone ==
    /\ pc = "cleanup"
    /\ sidecar' = cleanup(succeeded)
    /\ pc' = "done"
    /\ UNCHANGED << progress, envVars, loopVars, file, fileLen, status, flagVars, saveVars, evVars,
                    succeeded, totalSize, cmExists, initialized, segments,
                    cmDownloaded, jobs, queue, writes >>

\* ------------------------------------------------- pause, resume, cancel
\* where the task is when cancel() is called
CancelPhase ==
    IF InFlight(jobs) # {} THEN (IF IsSingle THEN "single" ELSE "segmented")
    ELSE IF pc \in {"queued", "sizeProbe", "rangeProbe"} THEN pc
    ELSE "other"

\* DownloadTask.cancel
Cancel ==
    /\ ~isCancelled
    /\ pc # "done"
    /\ isCancelled' = TRUE
    /\ cancelAt' = CancelPhase
    /\ status' = "cancelled"
    /\ nCancel' = nCancel + 1
    /\ UNCHANGED << progress, envVars, loopVars, diskVars, pc, isPaused, saveVars, nComplete, nError,
                    succeeded, totalSize, cmExists, initialized, segments,
                    cmDownloaded, jobs, queue, writes >>

\* Downloader.pause on a registered task
Pause ==
    /\ pc \notin {"queued", "done"}
    /\ status = "downloading"
    /\ isPaused' = TRUE
    /\ status' = "paused"
    /\ UNCHANGED << progress, envVars, loopVars, diskVars, pc, isCancelled, cancelAt, saveVars, evVars,
                    succeeded, totalSize, cmExists, initialized, segments,
                    cmDownloaded, jobs, queue, writes >>

\* Downloader.resume on a registered task
Resume ==
    /\ pc \notin {"queued", "done"}
    /\ status = "paused"
    /\ isPaused' = FALSE
    /\ status' = "downloading"
    /\ UNCHANGED << progress, envVars, loopVars, diskVars, pc, isCancelled, cancelAt, saveVars, evVars,
                    succeeded, totalSize, cmExists, initialized, segments,
                    cmDownloaded, jobs, queue, writes >>

\* -------------------------------------------------------------- auto-save
\* the interval callback: skipped while a save is in flight
AutoSaveTick ==
    /\ timerOn
    /\ cmExists
    /\ ~autoSaveInFlight
    /\ autoSaveInFlight' = TRUE
    /\ UNCHANGED << progress, envVars, loopVars, diskVars, pc, status, flagVars, timerOn, evVars,
                    succeeded, totalSize, cmExists, initialized, segments,
                    cmDownloaded, jobs, queue, writes >>

\* its saveProgress writes the file; finally() clears the flag
AutoSaveWritten ==
    /\ autoSaveInFlight
    /\ sidecar' = saveProgress(segments)
    /\ autoSaveInFlight' = FALSE
    /\ UNCHANGED << progress, envVars, loopVars, file, fileLen, pc, status, flagVars, timerOn, evVars,
                    succeeded, totalSize, cmExists, initialized, segments,
                    cmDownloaded, jobs, queue, writes >>

\* ---------------------------------------------------------------- relaunch
\* the process ends (it finished or was killed) and is launched again with
\* the same options on the same output path; the disk is what it left, and
\* the server may by now hold a payload of another size (its bytes are then
\* not those the file holds).  A kill during the write of an auto-save may
\* leave the sidecar cut short.
Relaunch ==
    /\ run < MaxRuns
    /\ fileLen > 0 \/ sidecar.exists
    /\ run' = run + 1
    /\ srvSize' \in 1 .. MaxTotal
    /\ file' = IF srvSize' = srvSize THEN file
               ELSE [p \in FilePos |-> IF file[p] = 0 THEN 0 ELSE -1]
    /\ fileLen' = fileLen
    /\ sidecar' \in IF autoSaveInFlight THEN {sidecar, Torn} ELSE {sidecar}
    /\ pc' = "queued" /\ status' = "pending"
    /\ isPaused' = FALSE /\ isCancelled' = FALSE /\ cancelAt' = "none"
    /\ succeeded' = FALSE /\ timerOn' = FALSE /\ autoSaveInFlight' = FALSE
    /\ totalSize' = 0 /\ cmExists' = FALSE /\ initialized' = FALSE
    /\ segments' = << >> /\ cmDownloaded' = 0
    /\ jobs' = << >> /\ queue' = << >> /\ urlIndex' = 0 /\ error' = "none"
    /\ resumeData' = Null
    /\ nComplete' = 0 /\ nError' = 0 /\ nCancel' = 0
    /\ writes' = {}
    /\ progress' = NoProgress
    /\ \E n \in 1 .. MaxSplit : opt' = [opt EXCEPT !.split = n]
    /\ UNCHANGED << srvRange, srvExact, sideVars >>

Next ==
    \/ Start
    \/ GetFileSizeDone
    \/ InitializeDone
    \/ SupportsRangeDone
    \/ \E i \in 1 .. Len(jobs) : \E n \in 1 .. MaxChunk : OnChunk(i, n)
    \/ \E i \in 1 .. Len(jobs) : StreamEnds(i)
    \/ \E i \in 1 .. Len(jobs) : MarkCompletedSaved(i)
    \/ \E i \in 1 .. Len(jobs) : StreamFails(i)
    \/ InitializeSaveFails
    \/ \E i \in 1 .. Len(jobs) : MarkCompletedSaveFails(i)
    \/ FailSaveFails
    \/ QueueIdle
    \/ WaitForResumeTick
    \/ AfterIdle
    \/ FailSaved
    \/ CleanupDone
    \/ Cancel
    \/ Pause
    \/ Resume
    \/ AutoSaveTick
    \/ AutoSaveWritten
    \/ Relaunch

Spec == Init /\ [][Next]_vars


\* ================================================================ claims
\* the output file holds the payload byte of every position
FileCorrect == \A p \in 0 .. (totalSize - 1) : file[p] = p + 1

\* the segments are in index order, disjoint, and cover [0, total - 1]
Partition(segs, total) ==
    /\ Len(segs) >= 1
    /\ segs[1].startByte = 0
    /\ segs[Len(segs)].endByte = total - 1
    /\ \A i \in 1 .. Len(segs) :
          /\ segs[i].index = i - 1
          /\ segs[i].startByte <= segs[i].endByte
          /\ i < Len(segs) => segs[i + 1].startByte = segs[i].endByte + 1

Boundaries(segs) == [i \in 1 .. Len(segs) |-> << segs[i].startByte, segs[i].endByte >>]

\* C1: with resumeDownloads set, once start() has finished its cleanup after a
\* cancel() of a running fetch (single-stream or segmented) or after a task
\* failure, the control sidecar still exists.
C1_SidecarKeptUnlessSuccess ==
    (pc = "done" /\ opt.resume /\ initialized
        /\ (cancelAt \in {"single", "segmented"} \/ status = "failed"))
    => sidecar.exists

\* C2: whenever the task emits Complete, every segment has status completed.
C2_CompleteMeansAllCompleted ==
    [][nComplete' > nComplete => isComplete(segments')]_vars

\* C3: against a server that returns exactly the requested bytes, once the
\* task has emitted Complete every position of [0, totalSize - 1] of the
\* output file holds the payload byte of that position.
C3_FileCorrectAtComplete ==
    (srvExact /\ nComplete > 0) => FileCorrect

\* C4: with resumeDownloads set, after Complete and the return of start() the
\* sidecar does not exist, whatever the auto-save does.
C4_NoSidecarAfterComplete ==
    (pc = "done" /\ opt.resume /\ nComplete > 0) => ~sidecar.exists

\* C5: after initialize succeeds the segments are in ascending index order,
\* pairwise disjoint and cover [0, totalSize - 1] exactly, fresh or adopted
\* from a control record, and no later step of the run moves a boundary.
C5_SegmentsPartition ==
    /\ [](initialized => Partition(segments, totalSize))
    /\ [][initialized /\ initialized' => Boundaries(segments') = Boundaries(segments)]_vars

\* a second launch has adopted a partly downloaded record written by the first
C5_Witness ==
    /\ run = 2 /\ initialized /\ pc = "rangeProbe"
    /\ \E i \in 1 .. Len(segments) :
          segments[i].downloadedBytes > 0 /\ segments[i].status = "pending"

\* C6: every segment has 0 <= downloadedBytes <= endByte - startByte + 1.
C6_CounterWithinSegment ==
    \A i \in 1 .. Len(segments) :
        /\ 0 <= segments[i].downloadedBytes
        /\ segments[i].downloadedBytes <= FullSize(segments[i])

\* C7: against a server that returns exactly the requested bytes, every byte
\* written on behalf of segment i lies in [startByte_i, endByte_i], and no
\* position is written on behalf of two segments.
C7_WritesStayInSegment ==
    srvExact =>
        /\ \A w \in writes :
              /\ segments[w[1]].startByte <= w[2]
              /\ w[2] <= segments[w[1]].endByte
        /\ \A w1, w2 \in writes : w1[2] = w2[2] => w1[1] = w2[1]

\* C8: for a resource of positive size, once cancel() has been called the
\* task emits no Error event.
C8_NoErrorAfterCancel ==
    [][srvSize > 0 /\ isCancelled /\ isCancelled' => nError' = nError]_vars

\* C9: once cancel() has set the status to cancelled, no step of the task
\* changes it.
C9_CancelledStays ==
    [][status = "cancelled" /\ run' = run => status' = "cancelled"]_vars

\* C10: the number of fetches of the task that are in flight never exceeds
\* maxConnectionsPerServer.
C10_InFlightBounded == Cardinality(InFlight(jobs)) <= opt.maxConn

\* the cap is reached while another segment waits in the queue
C10_Witness ==
    /\ Cardinality(InFlight(jobs)) = opt.maxConn
    /\ queue # << >>

\* C12: on the segmented path, between pause() and the next resume() or
\* cancel(), no segment whose request had not been issued begins its fetch.
C12_NoNewFetchWhilePaused ==
    [][(isPaused /\ isPaused' /\ ~isCancelled /\ ~isCancelled' /\ pc' # "singleStream")
        => InFlight(jobs') \subseteq InFlight(jobs)]_vars

\* C13: the k-th segment a task dispatches (k = 0, 1, ...) is fetched from
\* urls[k mod len(urls)].
C13_RoundRobinMirrors ==
    \A i \in 1 .. Len(jobs) :
        jobs[i].url # "none" => jobs[i].url = UrlAt(jobs[i].k)

\* the content of a sidecar is a control record a reader accepts
ValidRecord(c) == c.parsable /\ c.version = "1.0" /\ Len(c.segments) > 0

\* initialize loaded a record with segments whose spans do / do not add up to
\* the current totalSize
LoadedSegments == ~resumeData.isNull /\ Len(resumeData.segments) > 0
MatchLoaded    == LoadedSegments /\ SpanTotal(resumeData.segments) = totalSize
MismatchLoaded == LoadedSegments /\ SpanTotal(resumeData.segments) # totalSize

\* C14: when initialize failed with the resume-required error (resumeDownloads
\* and alwaysResume set, non-empty output file, no control file), no sidecar
\* is created.
C14_ResumeRequiredWritesNothing ==
    error = "ResumeRequired" => ~sidecar.exists

\* C15: with alwaysResume set, a non-empty target file and a sidecar that is
\* present but holds no valid control record, initialize makes the task fail.
C15_InvalidRecordFails ==
    [][(pc = "init" /\ pc' # "init" /\ run' = run /\ ~isCancelled
          /\ opt.alwaysResume /\ fileLen > 0
          /\ sidecar.exists /\ ~ValidRecord(sidecar))
        => status' = "failed"]_vars

\* C17: when the loaded record's span total differs from totalSize, with
\* alwaysResume initialize fails with the resume-mismatch error; without it
\* the mismatch is no error and the task goes on with a fresh segmentation of
\* totalSize, every segment pending with counter 0 and the task-wide counter
\* 0 (initialize then fails only if its closing save cannot be written).
C17_MismatchFailsOrStartsFresh ==
    MismatchLoaded =>
        IF opt.alwaysResume
        THEN ~initialized /\ error = "ResumeMismatch"
        ELSE /\ error \in {"none", "Save"}
             /\ initialized <=> error = "none"
             /\ Partition(segments, totalSize)
             /\ cmDownloaded = 0
             /\ \A i \in 1 .. Len(segments) :
                   segments[i].downloadedBytes = 0 /\ segments[i].status = "pending"

\* a record holding progress was discarded for a fresh segmentation
C17_Witness ==
    /\ pc = "rangeProbe" /\ MismatchLoaded /\ ~opt.alwaysResume
    /\ BytesTotal(resumeData.segments) > 0

\* C18: after initialize adopted a record, every segment has its counter in
\* [0, fullSize] and is completed exactly when the counter equals fullSize,
\* pending otherwise.
C18_AdoptedSegmentsNormalized ==
    (pc = "rangeProbe" /\ MatchLoaded) =>
        \A i \in 1 .. Len(segments) :
            /\ 0 <= segments[i].downloadedBytes
            /\ segments[i].downloadedBytes <= FullSize(segments[i])
            /\ segments[i].status =
                  IF segments[i].downloadedBytes = FullSize(segments[i])
                  THEN "completed" ELSE "pending"

\* the adopted record held a segment in status downloading or failed, or a
\* counter beyond the segment's size
C18_Witness ==
    /\ pc = "rangeProbe" /\ MatchLoaded
    /\ \E i \in 1 .. Len(resumeData.segments) :
          \/ resumeData.segments[i].status \in {"downloading", "failed"}
          \/ resumeData.segments[i].downloadedBytes > FullSize(resumeData.segments[i])

\* C19: against an exact server, a run restarted with unchanged totalSize
\* adopts a segment list equal to the saved one on index, startByte, endByte
\* and downloadedBytes.
C19_AdoptedEqualsSaved ==
    (srvExact /\ pc = "rangeProbe" /\ MatchLoaded) =>
        /\ Len(segments) = Len(resumeData.segments)
        /\ \A i \in 1 .. Len(segments) :
              /\ segments[i].index = resumeData.segments[i].index
              /\ segments[i].startByte = resumeData.segments[i].startByte
              /\ segments[i].endByte = resumeData.segments[i].endByte
              /\ segments[i].downloadedBytes = resumeData.segments[i].downloadedBytes

HasFailed == \E i \in 1 .. Len(segments) : segments[i].status = "failed"

Parked ==
    /\ srvSize = 0 /\ srvRange = FALSE /\ srvExact = TRUE
    /\ opt = [split |-> 1, maxConn |-> 1, segmentSize |-> 1,
              resume |-> TRUE, alwaysResume |-> TRUE]
    /\ file = [p \in FilePos |-> 0] /\ fileLen = 0
    /\ sidecar = NoSidecar
    /\ run = 1
    /\ FreshTask

TaskIds == 1 .. MaxTasks
\* isPaused and isCancelled are the task's flags, handle is its
\* completionPromise, waited says that its job had to wait for a slot
NoTask == [st |-> "none", status |-> "none", registered |-> FALSE,
           isPaused |-> FALSE, isCancelled |-> FALSE, handle |-> "none",
           waited |-> FALSE]
Executing(d) == {id \in TaskIds : d.tasks[id].st = "running"}

\* a queue that lets one task too many run
DownloadConcurrencyOffByOne(d) == d.max + 1

\* new PQueue({ concurrency: maxConcurrentDownloads })
DownloadConcurrency(d) == d.max

\* the PQueue runs the job: start() sets status downloading and goes on to
\* its first await
RunStart(d, id) ==
    [d EXCEPT !.tasks[id].st = "running", !.tasks[id].status = "downloading"]

DownloaderInit ==
    /\ Parked
    /\ downloader \in {[max |-> n, tasks |-> [id \in TaskIds |-> NoTask],
                        queue |-> << >>] :
                          n \in 1 .. MaxDownloads}
    /\ loadIn = NoSidecar
    /\ loadOut = NotCalled
    /\ segIn = NoSegIn
    /\ segOut = NotSegmented

\* Downloader.download: a new task is registered and its job added to the queue
Download(id) ==
    /\ downloader.tasks[id].st = "none"
    /\ LET d == [downloader EXCEPT !.tasks[id] =
                    [NoTask EXCEPT !.st = "queued", !.status = "pending",
                                   !.registered = TRUE, !.handle = "pending"]]
       IN  downloader' =
               IF Cardinality(Executing(d)) < DownloadConcurrency(d)
               THEN RunStart(d, id)
               ELSE [d EXCEPT !.queue = Append(@, id), !.tasks[id].waited = TRUE]
    /\ UNCHANGED << taskVars, loadIn, loadOut, segIn, segOut >>

\* a job whose promise rejects when start() does
SettledHandleUncaught(outcome) ==
    IF outcome = "failed" THEN "rejected" ELSE "resolved"

\* the job is start().catch(() => {}).finally(...): whatever start() does, the
\* promise the queue hands back resolves
SettledHandle(outcome) == "resolved"

\* a job that leaves its task in activeTasks
SettledKeepsEntry(t, outcome) ==
    [t EXCEPT !.st = "done", !.status = outcome, !.handle = SettledHandle(outcome)]

\* the task once its job has settled: finally() has deleted it from activeTasks
Settled(t, outcome) ==
    [t EXCEPT !.st = "done", !.status = outcome, !.registered = FALSE,
              !.handle = SettledHandle(outcome)]

\* start() of a running task settles; finally() takes it out of activeTasks
\* and the PQueue runs the next waiting job
StartSettles(id, outcome) ==
    /\ downloader.tasks[id].st = "running"
    /\ outcome = "cancelled" => downloader.tasks[id].status = "cancelled"
    /\ LET d == [downloader EXCEPT !.tasks[id] = Settled(@, outcome)]
       IN  downloader' =
               IF d.queue # << >> /\ Cardinality(Executing(d)) < DownloadConcurrency(d)
               THEN RunStart([d EXCEPT !.queue = Tail(@)], Head(d.queue))
               ELSE d
    /\ UNCHANGED << taskVars, loadIn, loadOut, segIn, segOut >>

\* DownloadTask.pause, resume, cancel as seen from outside
TaskPause(t)  == [t EXCEPT !.isPaused = TRUE, !.status = "paused"]
TaskResume(t) == [t EXCEPT !.isPaused = FALSE, !.status = "downloading"]
TaskCancel(t) == [t EXCEPT !.isCancelled = TRUE, !.status = "cancelled"]

\* a pause that is forwarded to every registered task
CanPauseAny(t) == t.registered

\* the tests of Downloader.pause and Downloader.resume
CanPause(t)  == t.registered /\ t.status = "downloading"
CanResume(t) == t.registered /\ t.status = "paused"

\* Downloader.pause(id) on task t: the task it leaves, what it returns, and
\* the event the task emits
PauseCall(t) ==
    IF CanPause(t)
    THEN [task |-> TaskPause(t), ret |-> TRUE, event |-> "Pause"]
    ELSE [task |-> t, ret |-> FALSE, event |-> "none"]

\* Downloader.resume(id) on task t
ResumeCall(t) ==
    IF CanResume(t)
    THEN [task |-> TaskResume(t), ret |-> TRUE, event |-> "Resume"]
    ELSE [task |-> t, ret |-> FALSE, event |-> "none"]

\* Downloader.cancel(id) on task t: task.cancel() and activeTasks.delete; the
\* job stays where it is in the PQueue
CancelCall(t) ==
    IF t.registered
    THEN [task |-> [TaskCancel(t) EXCEPT !.registered = FALSE], ret |-> TRUE,
          event |-> "Cancel"]
    ELSE [task |-> t, ret |-> FALSE, event |-> "none"]

DownloaderCancel(id) ==
    /\ downloader' = [downloader EXCEPT !.tasks[id] = CancelCall(@).task]
    /\ UNCHANGED << taskVars, loadIn, loadOut, segIn, segOut >>

DownloaderPause(id) ==
    /\ downloader' = [downloader EXCEPT !.tasks[id] = PauseCall(@).task]
    /\ UNCHANGED << taskVars, loadIn, loadOut, segIn, segOut >>

DownloaderResume(id) ==
    /\ downloader' = [downloader EXCEPT !.tasks[id] = ResumeCall(@).task]
    /\ UNCHANGED << taskVars, loadIn, loadOut, segIn, segOut >>

\* Downloader.pauseAll: the loop over activeTasks with the test of pause
PauseAll ==
    /\ downloader' = [downloader EXCEPT
                         !.tasks = [id \in TaskIds |-> PauseCall(@[id]).task]]
    /\ UNCHANGED << taskVars, loadIn, loadOut, segIn, segOut >>

\* Downloader.resumeAll
ResumeAll ==
    /\ downloader' = [downloader EXCEPT
                         !.tasks = [id \in TaskIds |-> ResumeCall(@[id]).task]]
    /\ UNCHANGED << taskVars, loadIn, loadOut, segIn, segOut >>

\* Downloader.cancelAll: every registered task is cancelled, the registry cleared
CancelAll ==
    /\ downloader' = [downloader EXCEPT
                         !.tasks = [id \in TaskIds |-> CancelCall(@[id]).task]]
    /\ UNCHANGED << taskVars, loadIn, loadOut, segIn, segOut >>

DownloaderNext ==
    \/ \E id \in TaskIds : Download(id)
    \/ \E id \in TaskIds : \E outcome \in {"completed", "failed", "cancelled"} :
          StartSettles(id, outcome)
    \/ \E id \in TaskIds : DownloaderCancel(id)
    \/ \E id \in TaskIds : DownloaderPause(id)
    \/ \E id \in TaskIds : DownloaderResume(id)
    \/ PauseAll
    \/ ResumeAll
    \/ CancelAll

DownloaderSpec == DownloaderInit /\ [][DownloaderNext]_vars

Statuses == {"pending", "downloading", "completed", "failed"}

\* a segment with any counter up to its size and any status
SegmentFillings(seg) ==
    {[seg EXCEPT !.downloadedBytes = d, !.status = st] :
        d \in 0 .. FullSize(seg), st \in Statuses}

\* a layout with any counters and statuses in its segments
Fillings(layout) ==
    {segs \in [1 .. Len(layout) ->
                 UNION {SegmentFillings(layout[i]) : i \in 1 .. Len(layout)}] :
        \A i \in 1 .. Len(layout) : segs[i] \in SegmentFillings(layout[i])}

Layouts == {createSegments(t, z, k) :
                t \in 1 .. MaxTotal, z \in 1 .. MaxSegSize, k \in 1 .. MaxSplit}

\* what the path may hold: nothing, bytes that are no JSON document, or a
\* record of this or of another version
Contents ==
    {NoSidecar, Torn}
    \cup {[exists |-> TRUE, parsable |-> TRUE, version |-> v, segments |-> segs] :
             v \in {"1.0", "2.0"},
             segs \in {<< >>} \cup UNION {Fillings(l) : l \in Layouts}}

LoadInit ==
    /\ Parked
    /\ downloader = NoDownloader
    /\ loadIn \in Contents
    /\ loadOut = NotCalled
    /\ segIn = NoSegIn
    /\ segOut = NotSegmented

\* ControlFile.load settles: the promise chain ends in catch(() => null), so
\* it never rejects
LoadCall ==
    /\ ~loadOut.called
    /\ loadOut' = [called |-> TRUE, threw |-> FALSE, result |-> load(loadIn)]
    /\ UNCHANGED << taskVars, downloader, loadIn, segIn, segOut >>

\* ControlFile.save of a record replaces the content; a later load reads it
SaveCall ==
    /\ loadOut.called
    /\ loadIn.exists /\ loadIn.parsable
    /\ loadIn' = Saved(loadIn.segments)
    /\ loadOut' = NotCalled
    /\ UNCHANGED << taskVars, downloader, segIn, segOut >>

LoadNext == LoadCall \/ SaveCall

LoadSpec == LoadInit /\ [][LoadNext]_vars

\* C16: ControlFile.load does not throw, and it returns null for a missing
\* file, for content that is no JSON document and for a record whose version
\* is not "1.0".
C16_LoadRejectsInvalid ==
    loadOut.called =>
        /\ ~loadOut.threw
        /\ (~loadIn.exists \/ ~loadIn.parsable \/ loadIn.version # "1.0")
              => loadOut.result.isNull

\* C21: once start() has caught an error and reached its cleanup, exactly one
\* Error has been emitted, the download does not count as succeeded, and with
\* a Chunk Manager and resumeDownloads the sidecar holds the saved progress.
C21_FailureHandling ==
    (error # "none" /\ pc \in {"cleanup", "done"}) =>
        /\ nError = 1
        /\ ~succeeded
        /\ (cmExists /\ opt.resume) => sidecar = Saved(segments)

\* C26: against an exact, range-capable server every byte a segment's counter
\* counts was written to the file: the positions startByte ..
\* startByte + downloadedBytes - 1 of the file are no holes.
C26_CounterCoversWrittenBytes ==
    (srvExact /\ srvRange) =>
        \A i \in 1 .. Len(segments) :
            \A p \in segments[i].startByte ..
                     (segments[i].startByte + segments[i].downloadedBytes - 1) :
                p \in FilePos => file[p] # 0

\* C28: once cancel() has been called the task emits no Complete event and its
\* status does not become completed.
C28_NoCompleteAfterCancel ==
    [][(isCancelled /\ isCancelled')
        => (nComplete' = nComplete /\ status' # "completed")]_vars

\* C29: on the single-stream path the task has one segment, and it covers
\* [0, totalSize - 1].
C29_SingleStreamLoneSegment ==
    IsSingle =>
        /\ Len(segments) = 1
        /\ segments[1].startByte = 0
        /\ segments[1].endByte = totalSize - 1

\* saves of the sidecar that are in flight: the auto-save, the save of each
\* markSegmentCompleted, the save in the catch of start()
SavesInFlight ==
    Cardinality({i \in 1 .. Len(jobs) : jobs[i].phase = "saving"})
    + (IF autoSaveInFlight THEN 1 ELSE 0)
    + (IF pc = "failSave" THEN 1 ELSE 0)

\* C30: at no instant are two saves of the task's sidecar in flight.
C30_OneSaveAtATime == SavesInFlight <= 1

\* C27: the task-wide counter of a Chunk Manager equals the sum of its
\* segments' downloadedBytes, after a fresh segmentation as after the adoption
\* of a saved record, and after every progress update and completion.
C27_CounterIsSumOfSegments ==
    cmExists => cmDownloaded = BytesTotal(segments)

\* a resumed segment that started above zero has received a further chunk
C27_Witness ==
    /\ run = 2
    /\ \E i \in 1 .. Len(jobs) :
          /\ jobs[i].init > 0 /\ jobs[i].recv > 0
          /\ segments[i].downloadedBytes = jobs[i].init + jobs[i].recv
    /\ cmDownloaded = BytesTotal(segments)

\* this step emits SegmentComplete for segment i: the save of its
\* markSegmentCompleted has settled inside a segment job
EmitsSegmentComplete(i) ==
    /\ i <= Len(jobs') /\ pc # "singleSave"
    /\ jobs[i].phase = "saving" /\ jobs'[i].phase = "done"

\* C25: at the step that emits Complete the last Progress event carries the
\* progress the task reports at that moment, which is the counter after its
\* last update; a SegmentComplete for a segment finds it completed with a
\* full counter.
C25_ProgressBeforeComplete ==
    [][/\ nComplete' > nComplete =>
            /\ progress'.emitted = getProgress(cmDownloaded', totalSize')
            /\ progress'.emitted = progress'.info
       /\ \A i \in 1 .. Len(jobs) :
            EmitsSegmentComplete(i) =>
                /\ segments'[i].status = "completed"
                /\ segments'[i].downloadedBytes = FullSize(segments'[i])
                /\ progress'.emitted = getProgress(cmDownloaded', totalSize')]_vars

\* a segmented download completed, its segment jobs having emitted
\* SegmentComplete, with the last Progress at the full size
C25_Witness ==
    /\ nComplete = 1 /\ srvRange /\ Len(segments) = 2
    /\ \A i \in 1 .. Len(jobs) : jobs[i].phase = "done"
    /\ progress.emitted = totalSize

\* ------------------------------------------------- Downloader: liveness
\* a running task's start() settles in the end (the proviso of C22); the
\* PQueue itself starts the next job in the same step
DownloaderFairSpec ==
    /\ DownloaderSpec
    /\ \A id \in TaskIds :
          WF_vars(\E outcome \in {"completed", "failed", "cancelled"} :
                      StartSettles(id, outcome))

\* C22: a task that failed has a resolved completion handle and has given its
\* slot back (no more than maxConcurrentDownloads tasks run and a waiting task
\* is left only when all slots are taken again), and every task waiting in the
\* queue starts, given that running tasks settle.
C22_FailureIsolated ==
    /\ [](\A id \in TaskIds :
            downloader.tasks[id].st = "done" => downloader.tasks[id].handle = "resolved")
    /\ [][\A id \in TaskIds :
            (downloader.tasks[id].st = "running" /\ downloader'.tasks[id].st = "done"
                /\ downloader'.tasks[id].status = "failed")
            => (\/ downloader'.queue = << >>
                \/ Cardinality(Executing(downloader')) = downloader.max)]_vars
    /\ \A id \in TaskIds :
          (downloader.tasks[id].st = "queued") ~> (downloader.tasks[id].st = "running")

\* one task failed and a task that had waited behind it is running
C22_Witness ==
    \E a, b \in TaskIds :
        /\ a # b
        /\ downloader.tasks[a].st = "done" /\ downloader.tasks[a].status = "failed"
        /\ downloader.tasks[a].handle = "resolved"
        /\ downloader.tasks[b].waited /\ downloader.tasks[b].st = "running"

\* C23: activeTasks holds a task exactly while its job is waiting or running
\* and Downloader.cancel has not been called on it; a task whose completion
\* handle has resolved is not in it, and it is empty once no job is left.
C23_RegistryTracksJobs ==
    /\ \A id \in TaskIds :
          LET t == downloader.tasks[id]
          IN  /\ t.registered <=> (t.st \in {"queued", "running"} /\ ~t.isCancelled)
              /\ t.handle = "resolved" => ~t.registered
    /\ (\A id \in TaskIds : downloader.tasks[id].st \in {"none", "done"})
          => (\A id \in TaskIds : ~downloader.tasks[id].registered)

\* one task finished, one was cancelled while it waited, one is still registered
C23_Witness ==
    \E a, b, c \in TaskIds :
        /\ downloader.tasks[a].st = "done" /\ downloader.tasks[a].handle = "resolved"
        /\ downloader.tasks[b].st = "queued" /\ downloader.tasks[b].isCancelled
        /\ ~downloader.tasks[b].registered
        /\ downloader.tasks[c].st = "running" /\ downloader.tasks[c].registered

\* C24: pause(id) and pauseAll pause a task only if it is registered with
\* status downloading, resume(id) and resumeAll resume it only if it is
\* registered with status paused; a call that finds the test false returns
\* false, emits no event and leaves the task as it was.
C24_PauseResumeGuarded ==
    /\ [](\A id \in TaskIds :
            LET t == downloader.tasks[id]
                pausable  == t.registered /\ t.status = "downloading"
                resumable == t.registered /\ t.status = "paused"
                p == PauseCall(t)
                r == ResumeCall(t)
            IN  /\ p.ret = pausable
                /\ pausable => (p.task.status = "paused" /\ p.task.isPaused)
                /\ ~pausable => (p.task = t /\ p.event = "none")
                /\ r.ret = resumable
                /\ resumable => (r.task.status = "downloading" /\ ~r.task.isPaused)
                /\ ~resumable => (r.task = t /\ r.event = "none"))
    /\ [][\A id \in TaskIds :
            LET t == downloader.tasks[id]
                u == downloader'.tasks[id]
            IN  /\ (u.isPaused /\ ~t.isPaused)
                      => (t.registered /\ t.status = "downloading" /\ u.status = "paused")
                /\ (t.isPaused /\ ~u.isPaused)
                      => (t.registered /\ t.status = "paused" /\ u.status = "downloading")
                /\ (PauseAll /\ t.registered /\ t.status = "downloading") => u.isPaused
                /\ (ResumeAll /\ t.registered /\ t.status = "paused") => ~u.isPaused]_vars

\* a registered task still waits in the queue, where pause is refused, while
\* another task has been paused and a third resumed
C24_Witness ==
    \E a, b \in TaskIds :
        /\ downloader.tasks[a].registered /\ downloader.tasks[a].status = "pending"
        /\ ~PauseCall(downloader.tasks[a]).ret
        /\ downloader.tasks[b].status = "paused" /\ downloader.tasks[b].isPaused
        /\ ~ResumeCall(downloader.tasks[a]).ret

\* ======================================== ChunkManager.createSegments
\* createSegments called on its own, for every size and option in range
SegInit ==
    /\ Parked
    /\ downloader = NoDownloader
    /\ loadIn = NoSidecar
    /\ loadOut = NotCalled
    /\ segIn \in [totalSize : 1 .. MaxFileSize, segmentSize : 1 .. MaxUnit,
                  split : 1 .. MaxParts]
    /\ segOut = NotSegmented

\* initialize on a path without control file: createSegments()
CreateSegmentsCall ==
    /\ ~segOut.called
    /\ segOut' = [called |-> TRUE,
                  segments |-> createSegments(segIn.totalSize, segIn.segmentSize,
                                              Max(1, segIn.split))]
    /\ UNCHANGED << taskVars, downloader, loadIn, loadOut, segIn >>

SegNext == CreateSegmentsCall

SegSpec == SegInit /\ [][SegNext]_vars

\* maxSegmentsBySize = max(1, floor(totalSize / segmentSize))
MaxSegmentsBySize == Max(1, segIn.totalSize \div segIn.segmentSize)

\* C38: a fresh segmentation has at most min(split, maxSegmentsBySize)
\* segments, and exactly maxSegmentsBySize when split is larger than that.
C38_SegmentCount ==
    segOut.called =>
        /\ Len(segOut.segments) <= Min(segIn.split, MaxSegmentsBySize)
        /\ segIn.split > MaxSegmentsBySize
              => Len(segOut.segments) = MaxSegmentsBySize

\* C39: the sizes of any two segments of a fresh segmentation differ by at
\* most one byte.
C39_SizesWithinOne ==
    segOut.called =>
        \A i, j \in 1 .. Len(segOut.segments) :
            FullSize(segOut.segments[i]) - FullSize(segOut.segments[j]) <= 1

\* C40: with totalSize >= segmentSize every segment of a fresh segmentation
\* spans at least segmentSize bytes.
C40_SegmentSizeIsMinimum ==
    (segOut.called /\ segIn.totalSize >= segIn.segmentSize) =>
        \A i \in 1 .. Len(segOut.segments) :
            FullSize(segOut.segments[i]) >= segIn.segmentSize

\* positions of the file segment job i has written in this run
WrittenBy(i) == {p \in FilePos : << i, p >> \in writes}

\* C31: a segment job that started with downloadedBytes = d and has received
\* n bytes has written exactly the positions startByte + d ..
\* startByte + d + n - 1, reports the progress d + n, and against an exact
\* server each of these positions holds the payload byte of that position
\* (the request began at startByte + d).
C31_ResumedSegmentContinues ==
    \A i \in 1 .. Len(jobs) :
        (jobs[i].phase = "streaming" /\ ~IsSingle) =>
            LET from == segments[i].startByte + jobs[i].init
            IN  /\ segments[i].downloadedBytes = jobs[i].init + jobs[i].recv
                /\ WrittenBy(i) = from .. (from + jobs[i].recv - 1)
                /\ srvExact => \A p \in WrittenBy(i) : file[p] = p + 1

\* in the second run a segment adopted with one byte has received another
C31_Witness ==
    /\ run = 2 /\ srvRange /\ srvExact /\ ~IsSingle
    /\ \E i \in 1 .. Len(jobs) :
          /\ jobs[i].phase = "streaming"
          /\ jobs[i].init > 0 /\ jobs[i].recv > 0
          /\ file[segments[i].startByte + jobs[i].init] = segments[i].startByte + jobs[i].init + 1

\* C32: within a run a segment that has status completed keeps that status
\* and a counter equal to its full size.
C32_CompletedStays ==
    [][\A i \in 1 .. Len(segments) :
          (segments[i].status = "completed" /\ run' = run)
              => /\ segments'[i].status = "completed"
                 /\ segments'[i].downloadedBytes = FullSize(segments'[i])]_vars

\* this step dispatches segment i: its job gets its place in the dispatch order
Dispatched(i) == jobs[i].k < 0 /\ jobs'[i].k >= 0

\* C33: within a run a segment is dispatched at most once (its place in the
\* dispatch order never changes and no fetch is started over a job that is
\* running), and a segment is dispatched only after every pending segment of
\* lower index.
C33_DispatchedOnceInOrder ==
    [][run' = run =>
        \A i \in 1 .. Min(Len(jobs), Len(jobs')) :
            /\ jobs[i].k >= 0 => jobs'[i].k = jobs[i].k
            /\ jobs[i].phase \in {"streaming", "saving", "done", "failed", "suppressed"}
                  => /\ jobs'[i].phase \notin {"idle", "queued"}
                     /\ jobs'[i].init = jobs[i].init
                     /\ jobs'[i].recv >= jobs[i].recv
                     /\ jobs'[i].url = jobs[i].url
            /\ \A j \in 1 .. (i - 1) :
                  (Dispatched(i) /\ segments[j].status = "pending")
                      => (Dispatched(j) /\ jobs'[j].k < jobs'[i].k)]_vars

\* two segments over one connection: the second was dispatched after the first
\* and fetches once the first is done
C33_Witness ==
    /\ opt.maxConn = 1 /\ Len(jobs) = 2 /\ ~IsSingle /\ srvRange
    /\ jobs[1].k = 0 /\ jobs[1].phase = "done"
    /\ jobs[2].k = 1 /\ jobs[2].phase = "streaming"

\* the connection count the CLI shows: segments with status downloading
Connections == Cardinality({i \in 1 .. Len(segments) : segments[i].status = "downloading"})

\* C34: the number of segments with status downloading equals the number of
\* fetches in flight and does not exceed maxConnectionsPerServer.
C34_ConnectionCount ==
    /\ Connections = Cardinality(InFlight(jobs))
    /\ Connections <= opt.maxConn

\* C35: against an exact server the downloadedBytes of the Progress events of
\* a run never decreases, and the Progress emitted at Complete carries
\* downloadedBytes = totalBytes.
C35_ProgressMonotonic ==
    [][(srvExact /\ run' = run) =>
          /\ progress'.emitted >= progress.emitted
          /\ (nComplete' > nComplete /\ ~isCancelled')
                => progress'.emitted = totalSize']_vars

\* C36: inside downloadWithSegments, against an exact server, a task with
\* status paused gets no other status than downloading (resume) or cancelled
\* (cancel) and emits no Complete.
C36_PausedStaysPaused ==
    [][(status = "paused" /\ run' = run /\ srvExact
            /\ pc \in {"idleWait", "waitResume", "drain"}) =>
          /\ status' \in {"paused", "downloading", "cancelled"}
          /\ nComplete' = nComplete]_vars

\* ------------------------------------------------------- task: liveness
\* a download in which nothing fails: the server reports a size and delivers
\* what is asked for, saves succeed, the task is not cancelled and the process
\* is not killed
LiveInit == Init /\ srvSize >= 1 /\ srvExact

LiveNext ==
    \/ Start
    \/ GetFileSizeDone
    \/ InitializeDone
    \/ SupportsRangeDone
    \/ \E i \in 1 .. Len(jobs) : \E n \in 1 .. MaxChunk : OnChunk(i, n)
    \/ \E i \in 1 .. Len(jobs) : StreamEnds(i)
    \/ \E i \in 1 .. Len(jobs) : MarkCompletedSaved(i)
    \/ QueueIdle
    \/ WaitForResumeTick
    \/ AfterIdle
    \/ CleanupDone
    \/ Pause
    \/ Resume
    \/ AutoSaveTick
    \/ AutoSaveWritten

\* the event loop runs every continuation that is ready and the server goes on
\* delivering; a pause is followed by a resume. The poll of waitForResume
\* leaves the wait only when it finds the task unpaused at the moment it looks,
\* so it is weakly fair: a pause lifted and set again between two looks is
\* not seen
LiveFairness ==
    /\ WF_vars(Start)
    /\ WF_vars(GetFileSizeDone)
    /\ WF_vars(InitializeDone)
    /\ WF_vars(SupportsRangeDone)
    /\ WF_vars(\E i \in 1 .. Len(jobs) : \E n \in 1 .. MaxChunk : OnChunk(i, n))
    /\ WF_vars(\E i \in 1 .. Len(jobs) : StreamEnds(i))
    /\ WF_vars(\E i \in 1 .. Len(jobs) : MarkCompletedSaved(i))
    /\ WF_vars(QueueIdle)
    /\ WF_vars(WaitForResumeTick)
    /\ WF_vars(AfterIdle)
    /\ WF_vars(CleanupDone)
    /\ WF_vars(Resume)

LiveSpec == LiveInit /\ [][LiveNext]_vars /\ LiveFairness

\* C37: when nothing fails, the task is not cancelled and every pause is
\* followed by a resume, the task emits Complete and start() returns.
C37_EventuallyComplete == <>(pc = "done" /\ nComplete = 1 /\ succeeded)

\* C37 (amended): when nothing fails, the task is not cancelled and from some
\* moment on it is no longer paused, the task emits Complete and start()
\* returns.
C37_CompleteOnceUnpaused ==
    (<>[](~isPaused)) => <>(pc = "done" /\ nComplete = 1 /\ succeeded)

\* a segmented download over two segments and one connection has completed
\* and is not paused
C37_Witness ==
    /\ pc = "done" /\ nComplete = 1 /\ Len(segments) = 2 /\ opt.maxConn = 1
    /\ ~isPaused
    /\ srvRange /\ \A i \in 1 .. Len(jobs) : jobs[i].phase = "done"

====
